---- MODULE Spec2Model ----
(***************************************************************************)
(* Model of the "Clean up and combine segments" cell of transcribe.ipynb:  *)
(* the two Whisper segment lists are tagged with a speaker, concatenated,  *)
(* sorted by start and collapsed into outputSegments.                      *)
(*                                                                         *)
(* Python lists hold references to dicts.  The dicts built by the import   *)
(* loops live in `heap` (a dict's address is its index in heap, which is   *)
(* also its position in the concatenation); combinedSegments and           *)
(* outputSegments are sequences of addresses, so that the append of the    *)
(* input dict at line 232 and the in-place updates of lines 234-236 act on *)
(* the shared object, as they do in the notebook.                          *)
(*                                                                         *)
(* A text is a sequence of one-character strings.                          *)
(***************************************************************************)
EXTENDS Integers, Sequences, FiniteSets, TLC

(* pc                position in the cell (lines 203-239)                  *)
(* interviewer       interviewer['segments'], loaded at lines 198-199      *)
(* interviewee       interviewee['segments'], loaded at lines 200-201      *)
(* heap              the dicts created at lines 206-212 and 215-221        *)
(* combinedSegments  the list of line 203, as addresses into heap          *)
(* outputSegments    the list of line 225, as addresses into heap          *)
(* i                 the position of the for loop of line 226              *)
(* dumped            what json.dump has written to combined.json (line     *)
(*                   239), one entry per merge pass                        *)
VARIABLES pc, interviewer, interviewee, heap, combinedSegments,
          outputSegments, i, dumped

vars == <<pc, interviewer, interviewee, heap, combinedSegments,
          outputSegments, i, dumped>>

(* Bounds of the model: the segments of both audios together, and the     *)
(* number of times the merge pass is run over one combinedSegments list.   *)
MaxSegments == 3
MaxPasses == 2

interviewerName == "Interviewer"
participantName == "P1"

(* The texts Whisper may give a segment: " . " (no speech, with spaces     *)
(* around the dot), " a" (speech) and " " (nothing but a space).           *)
RawTexts == { <<" ", ".", " ">>, <<" ", "a">>, <<" ">> }

(* The values of start and end, in seconds; end < start is not excluded. *)
Times == {0, 1}

(* model.transcribe(...)['segments'] of n segments: Whisper numbers the    *)
(* segments of one audio 0, 1, 2, ...; text, start and end are free.       *)
Transcripts(n) ==
  { [k \in 1..n |-> [id |-> k - 1, text |-> f[k][1],
                     start |-> f[k][2], end |-> f[k][3]]] :
      f \in [1..n -> RawTexts \X Times \X Times] }

(* str.strip(' '): leading and trailing ' ' characters are removed. *)
RECURSIVE lstrip(_)
lstrip(s) == IF s # <<>> /\ Head(s) = " " THEN lstrip(Tail(s)) ELSE s

RECURSIVE rstrip(_)
rstrip(s) ==
  IF s # <<>> /\ s[Len(s)] = " " THEN rstrip(SubSeq(s, 1, Len(s) - 1)) ELSE s

strip(s) == rstrip(lstrip(s))

(* Variant: the text is stored as Whisper gave it, without strip(' '). *)
TaggedNoStrip(segment, speaker) ==
  [speaker |-> speaker,
   text |-> segment.text,
   original_ids |-> <<segment.id>>,
   start |-> segment.start,
   end |-> segment.end]

(* The dict literal appended for one segment. *)
Tagged(segment, speaker) ==
  [speaker |-> speaker,
   text |-> strip(segment.text),
   original_ids |-> <<segment.id>>,
   start |-> segment.start,
   end |-> segment.end]

(* Variant: an import loop that leaves out the segments with end < start. *)
ImportLoopValidated(segments, speaker) ==
  LET IsValid(seg) == seg.end >= seg.start
      kept == SelectSeq(segments, IsValid)
  IN [k \in 1..Len(kept) |-> Tagged(kept[k], speaker)]

(* One import loop: a dict per segment of the list, in the list's order. *)
ImportLoop(segments, speaker) ==
  [k \in 1..Len(segments) |-> Tagged(segments[k], speaker)]

(* Variant: an address is inserted before the addresses of equal key, so   *)
(* that equal keys end up in reverse order.                                *)
InsertBeforeEqual(s, a, h) ==
  LET n == Cardinality({k \in DOMAIN s : h[s[k]].start < h[a].start})
  IN SubSeq(s, 1, n) \o <<a>> \o SubSeq(s, n + 1, Len(s))

(* Variant: the sort is descending (reverse=True). *)
InsertDescending(s, a, h) ==
  LET n == Cardinality({k \in DOMAIN s : h[s[k]].start >= h[a].start})
  IN SubSeq(s, 1, n) \o <<a>> \o SubSeq(s, n + 1, Len(s))

(* Variant: the list is left in concatenation order. *)
unsorted(s, h) == s

(* sorted(..., key=lambda d: d['start']): a stable sort, here by insertion *)
(* of each address after every address whose key is not greater.           *)
InsertByStart(s, a, h) ==
  LET n == Cardinality({k \in DOMAIN s : h[s[k]].start <= h[a].start})
  IN SubSeq(s, 1, n) \o <<a>> \o SubSeq(s, n + 1, Len(s))

RECURSIVE sorted(_, _)
sorted(s, h) ==
  IF s = <<>> THEN <<>>
  ELSE InsertByStart(sorted(SubSeq(s, 1, Len(s) - 1), h), s[Len(s)], h)

(* json.dump(outputSegments): the dicts the list refers to, by value. *)
Dumped(out, h) == [k \in DOMAIN out |-> h[out[k]]]

Init ==
  /\ \E n1 \in 0..MaxSegments : \E n2 \in 0..(MaxSegments - n1) :
       /\ interviewer \in Transcripts(n1)
       /\ interviewee \in Transcripts(n2)
  /\ pc = "import_interviewer"
  /\ heap = <<>>
  /\ combinedSegments = <<>>
  /\ outputSegments = <<>>
  /\ i = 1
  /\ dumped = <<>>

(* for segment in interviewer['segments']: combinedSegments.append({...}) *)
ImportInterviewer ==
  /\ pc = "import_interviewer"
  /\ LET new == ImportLoop(interviewer, interviewerName)
     IN /\ heap' = heap \o new
        /\ combinedSegments' =
             combinedSegments \o [k \in 1..Len(new) |-> Len(heap) + k]
  /\ pc' = "import_interviewee"
  /\ UNCHANGED <<interviewer, interviewee, outputSegments, i, dumped>>

(* for segment in interviewee['segments']: combinedSegments.append({...}) *)
ImportInterviewee ==
  /\ pc = "import_interviewee"
  /\ LET new == ImportLoop(interviewee, participantName)
     IN /\ heap' = heap \o new
        /\ combinedSegments' =
             combinedSegments \o [k \in 1..Len(new) |-> Len(heap) + k]
  /\ pc' = "sort"
  /\ UNCHANGED <<interviewer, interviewee, outputSegments, i, dumped>>

(* combinedSegments = sorted(combinedSegments, key=lambda d: d['start']) *)
Sort ==
  /\ pc = "sort"
  /\ combinedSegments' = sorted(combinedSegments, heap)
  /\ pc' = "collapse"
  /\ UNCHANGED <<interviewer, interviewee, heap, outputSegments, i, dumped>>

(* outputSegments = [] and the start of the for loop *)
StartCollapse ==
  /\ pc = "collapse"
  /\ outputSegments' = <<>>
  /\ i' = 1
  /\ pc' = "merge"
  /\ UNCHANGED <<interviewer, interviewee, heap, combinedSegments, dumped>>

(* The segment of the current iteration and the last output segment. *)
Current == heap[combinedSegments[i]]
Last == heap[outputSegments[Len(outputSegments)]]

InLoop == pc = "merge" /\ i <= Len(combinedSegments)

(* len(outputSegments) == 0 or segment['speaker'] != outputSegments[-1]['speaker'] *)
StartsNewSegment ==
  IF Len(outputSegments) = 0 THEN TRUE ELSE Current.speaker # Last.speaker

(* Variant: an empty text is taken for "no speech" as well. *)
IsNoSpeechOrEmpty(segment) == segment.text \in {<<".">>, <<>>}

(* segment['text'] == '.' *)
IsNoSpeech(segment) == segment.text = <<".">>

(* if (segment['text'] == '.'): continue *)
Skip ==
  /\ InLoop
  /\ IsNoSpeech(Current)
  /\ i' = i + 1
  /\ UNCHANGED <<pc, interviewer, interviewee, heap, combinedSegments,
                 outputSegments, dumped>>

(* outputSegments.append(segment): the dict itself, not a copy *)
Seed ==
  /\ InLoop
  /\ ~IsNoSpeech(Current)
  /\ StartsNewSegment
  /\ outputSegments' = Append(outputSegments, combinedSegments[i])
  /\ i' = i + 1
  /\ UNCHANGED <<pc, interviewer, interviewee, heap, combinedSegments, dumped>>

(* Variant: line 234 is missing, the absorbed id is not recorded. *)
AbsorbDropId ==
  /\ InLoop
  /\ ~IsNoSpeech(Current)
  /\ ~StartsNewSegment
  /\ heap' = [heap EXCEPT ![outputSegments[Len(outputSegments)]] =
                [@ EXCEPT !.end = Current.end,
                          !.text = @ \o <<" ">> \o Current.text]]
  /\ i' = i + 1
  /\ UNCHANGED <<pc, interviewer, interviewee, combinedSegments,
                 outputSegments, dumped>>

(* Variant: line 235 is missing, the end of the first segment is kept. *)
AbsorbKeepEnd ==
  /\ InLoop
  /\ ~IsNoSpeech(Current)
  /\ ~StartsNewSegment
  /\ heap' = [heap EXCEPT ![outputSegments[Len(outputSegments)]] =
                [@ EXCEPT !.original_ids = Append(@, Current.original_ids[1]),
                          !.text = @ \o <<" ">> \o Current.text]]
  /\ i' = i + 1
  /\ UNCHANGED <<pc, interviewer, interviewee, combinedSegments,
                 outputSegments, dumped>>

(* Variant: outputSegments[0] is updated instead of outputSegments[-1]. *)
AbsorbFirst ==
  /\ InLoop
  /\ ~IsNoSpeech(Current)
  /\ ~StartsNewSegment
  /\ heap' = [heap EXCEPT ![outputSegments[1]] =
                [@ EXCEPT !.original_ids = Append(@, Current.original_ids[1]),
                          !.end = Current.end,
                          !.text = @ \o <<" ">> \o Current.text]]
  /\ i' = i + 1
  /\ UNCHANGED <<pc, interviewer, interviewee, combinedSegments,
                 outputSegments, dumped>>

(* the else branch: the last output dict is updated in place *)
Absorb ==
  /\ InLoop
  /\ ~IsNoSpeech(Current)
  /\ ~StartsNewSegment
  /\ heap' = [heap EXCEPT ![outputSegments[Len(outputSegments)]] =
                [@ EXCEPT !.original_ids = Append(@, Current.original_ids[1]),
                          !.end = Current.end,
                          !.text = @ \o <<" ">> \o Current.text]]
  /\ i' = i + 1
  /\ UNCHANGED <<pc, interviewer, interviewee, combinedSegments,
                 outputSegments, dumped>>

(* the loop is exhausted: json.dump(outputSegments, f, ...) *)
Dump ==
  /\ pc = "merge"
  /\ i > Len(combinedSegments)
  /\ dumped' = Append(dumped, Dumped(outputSegments, heap))
  /\ pc' = "done"
  /\ UNCHANGED <<interviewer, interviewee, heap, combinedSegments,
                 outputSegments, i>>

Next ==
  \/ ImportInterviewer
  \/ ImportInterviewee
  \/ Sort
  \/ StartCollapse
  \/ Skip
  \/ Seed
  \/ Absorb
  \/ Dump

Spec == Init /\ [][Next]_vars

(* The merge pass (lines 225-239) run once more over the same             *)
(* combinedSegments list.                                                  *)
Rerun ==
  /\ pc = "done"
  /\ Len(dumped) < MaxPasses
  /\ pc' = "collapse"
  /\ UNCHANGED <<interviewer, interviewee, heap, combinedSegments,
                 outputSegments, i, dumped>>

NextRerun == Next \/ Rerun

SpecRerun == Init /\ [][NextRerun]_vars

(***************************************************************************)
(* Vocabulary of the properties.  After the import loops the dict at       *)
(* address a was built from the a-th segment of the concatenation          *)
(* interviewer['segments'] + interviewee['segments'].                      *)
(***************************************************************************)
Total == Len(interviewer) + Len(interviewee)

RawAt(a) ==
  IF a <= Len(interviewer) THEN interviewer[a]
  ELSE interviewee[a - Len(interviewer)]

SpeakerAt(a) ==
  IF a <= Len(interviewer) THEN interviewerName ELSE participantName

(* The text is a single "." with nothing but spaces around it. *)
IsDotOnly(t) ==
  \E k \in DOMAIN t :
    /\ t[k] = "."
    /\ \A m \in DOMAIN t \ {k} : t[m] = " "

(* The text between its first and its last character that is not a space. *)
Trimmed(t) ==
  LET ns == {k \in DOMAIN t : t[k] # " "}
  IN IF ns = {} THEN <<>>
     ELSE SubSeq(t, CHOOSE k \in ns : \A m \in ns : k <= m,
                    CHOOSE k \in ns : \A m \in ns : k >= m)

IsValidRaw(seg) == seg.end >= seg.start /\ seg.start >= 0

AllRaw == {RawAt(a) : a \in 1..Total}

Occurrences(s, v) == Cardinality({k \in DOMAIN s : s[k] = v})

(* The addresses of the first n segments of the sorted list that are not   *)
(* dot-only, in the order of the list.                                     *)
RECURSIVE KeptPrefix(_)
KeptPrefix(n) ==
  IF n = 0 THEN <<>>
  ELSE IF IsDotOnly(RawAt(combinedSegments[n]).text) THEN KeptPrefix(n - 1)
       ELSE Append(KeptPrefix(n - 1), combinedSegments[n])

(* All original_ids of the output segments, one after the other. *)
RECURSIVE OutputIds(_, _)
OutputIds(out, h) ==
  IF out = <<>> THEN <<>>
  ELSE OutputIds(SubSeq(out, 1, Len(out) - 1), h)
         \o h[out[Len(out)]].original_ids

Out(k) == heap[outputSegments[k]]

Merging == pc \in {"merge", "done"}

Sorted == pc \in {"collapse", "merge", "done"}

(***************************************************************************)
(* C1  Provenance completeness.  At every point of the merge pass, the     *)
(* multiset of all original_ids of the output segments equals the multiset *)
(* of the ids of the segments processed so far whose trimmed text is not   *)
(* "."; at the end of the pass this is every such input segment.           *)
(***************************************************************************)
C1_ProvenanceComplete ==
  Merging =>
    LET kept == KeptPrefix(i - 1)
        keptIds == [k \in DOMAIN kept |-> RawAt(kept[k]).id]
        outIds == OutputIds(outputSegments, heap)
    IN /\ pc = "done" => i - 1 = Total
       /\ \A v \in {keptIds[k] : k \in DOMAIN keptIds}
                     \cup {outIds[k] : k \in DOMAIN outIds} :
            Occurrences(outIds, v) = Occurrences(keptIds, v)

(* A finished pass in which one id occurs twice in the output (once per    *)
(* speaker) and a dot-only segment was left out.                           *)
C1_Witness ==
  /\ pc = "done"
  /\ \E v \in 0..MaxSegments : Occurrences(OutputIds(outputSegments, heap), v) = 2
  /\ \E a \in 1..Total : IsDotOnly(RawAt(a).text)

(***************************************************************************)
(* C2  Collapse correctness.  Take the sorted list without its dot-only    *)
(* segments; a run is a maximal stretch of it with one speaker.  After the *)
(* pass there is exactly one output segment per run, in the order of the   *)
(* runs, with the start of the run's first member, the end of its last     *)
(* member, the trimmed texts joined by single spaces and the ids in order. *)
(* Only the speaker delimits a run, whatever the times.                    *)
(***************************************************************************)
RunStarts(F) ==
  {a \in DOMAIN F :
     IF a = 1 THEN TRUE ELSE SpeakerAt(F[a - 1]) # SpeakerAt(F[a])}

RunEnd(F, a) ==
  CHOOSE b \in a..Len(F) :
    /\ \A m \in a..b : SpeakerAt(F[m]) = SpeakerAt(F[a])
    /\ IF b = Len(F) THEN TRUE ELSE SpeakerAt(F[b + 1]) # SpeakerAt(F[a])

RECURSIVE JoinedText(_, _, _)
JoinedText(F, a, b) ==
  IF a = b THEN Trimmed(RawAt(F[a]).text)
  ELSE JoinedText(F, a, b - 1) \o <<" ">> \o Trimmed(RawAt(F[b]).text)

C2_CollapseCorrect ==
  pc = "done" =>
    LET F == KeptPrefix(Len(combinedSegments))
        starts == RunStarts(F)
    IN /\ Len(outputSegments) = Cardinality(starts)
       /\ \A a \in starts :
            LET b == RunEnd(F, a)
                o == Out(Cardinality({r \in starts : r <= a}))
            IN /\ o.speaker = SpeakerAt(F[a])
               /\ o.start = RawAt(F[a]).start
               /\ o.end = RawAt(F[b]).end
               /\ o.text = JoinedText(F, a, b)
               /\ o.original_ids =
                    [m \in 1..(b - a + 1) |-> RawAt(F[a + m - 1]).id]

(* A finished pass with two output segments, one of them a run of two      *)
(* segments with a time gap between them (the first ends before the second *)
(* starts).                                                                *)
C2_Witness ==
  /\ pc = "done"
  /\ Len(outputSegments) = 2
  /\ \E k \in DOMAIN outputSegments :
       /\ Len(Out(k).original_ids) = 2
       /\ \E a \in 1..Total :
            /\ a # outputSegments[k]
            /\ SpeakerAt(a) = Out(k).speaker
            /\ RawAt(a).start > RawAt(outputSegments[k]).end

(***************************************************************************)
(* C3  Filter.  An iteration of the merge loop whose segment has a text    *)
(* that is "." once its spaces are trimmed leaves the output as it is      *)
(* (no segment is added, none is changed); an iteration on any other       *)
(* segment, one with an empty trimmed text included, puts the segment's id *)
(* at the end of the last output segment of its speaker.                   *)
(***************************************************************************)
C3_FilterDotOnly ==
  [][InLoop =>
       LET a == combinedSegments[i]
       IN IF IsDotOnly(RawAt(a).text)
          THEN /\ outputSegments' = outputSegments
               /\ Dumped(outputSegments', heap') = Dumped(outputSegments, heap)
          ELSE /\ Len(outputSegments') > 0
               /\ LET o == heap'[outputSegments'[Len(outputSegments')]]
                  IN /\ o.speaker = SpeakerAt(a)
                     /\ o.original_ids[Len(o.original_ids)] = RawAt(a).id
               /\ Len(OutputIds(outputSegments', heap')) =
                    Len(OutputIds(outputSegments, heap)) + 1]_vars

(* The loop has just passed a dot-only segment with a non-empty output,    *)
(* and a segment whose trimmed text is empty is in the output.             *)
C3_Witness ==
  /\ pc = "merge"
  /\ i > 2
  /\ IsDotOnly(RawAt(combinedSegments[i - 1]).text)
  /\ Len(outputSegments) > 0
  /\ \E k \in DOMAIN outputSegments :
       /\ Trimmed(RawAt(outputSegments[k]).text) = <<>>
       /\ Out(k).text = <<>>

(***************************************************************************)
(* C4  Order preservation.  The start values of the output sequence are    *)
(* non-decreasing from the first output segment to the last, for every     *)
(* input.                                                                  *)
(***************************************************************************)
C4_StartsNonDecreasing ==
  \A k \in DOMAIN outputSegments : \A l \in DOMAIN outputSegments :
    k < l => Out(k).start <= Out(l).start

(* A finished pass with two output segments of different starts, from an   *)
(* input whose concatenation was not in start order.                       *)
C4_Witness ==
  /\ pc = "done"
  /\ Len(outputSegments) >= 2
  /\ Out(1).start < Out(Len(outputSegments)).start
  /\ \E a \in 1..Total : \E b \in 1..Total :
       a < b /\ RawAt(a).start > RawAt(b).start

(***************************************************************************)
(* C5 as stated: a raw segment with end < start makes the import fail, so  *)
(* the run never gets past the import loops.                               *)
(***************************************************************************)
C5_InvalidRejected ==
  (\E seg \in AllRaw : seg.end < seg.start) =>
    pc \in {"import_interviewer", "import_interviewee"}

(***************************************************************************)
(* C5  as amended.  The import loops check nothing: whatever start and end *)
(* are, every raw segment of both streams gets its dict, in stream order,  *)
(* with start and end copied, and the run goes on to the sort and the      *)
(* merge pass with all of them.                                            *)
(***************************************************************************)
C5_InvalidImported ==
  pc \notin {"import_interviewer", "import_interviewee"} =>
    /\ Len(heap) = Total
    /\ Len(combinedSegments) = Total
    /\ {combinedSegments[k] : k \in DOMAIN combinedSegments} = 1..Total
    /\ \A a \in 1..Total :
         /\ heap[a].start = RawAt(a).start
         /\ pc = "sort" => heap[a].end = RawAt(a).end

(* A finished pass over an input with a segment of end < start, whose      *)
(* output holds a segment of end < start.                                  *)
C5_Witness ==
  /\ pc = "done"
  /\ \E seg \in AllRaw : seg.end < seg.start
  /\ \E k \in DOMAIN outputSegments : Out(k).end < Out(k).start

(***************************************************************************)
(* C6 as stated: no input segment gives an empty output, exactly one input *)
(* segment gives an output of exactly one element.                         *)
(***************************************************************************)
C6_EdgeCases ==
  pc = "done" =>
    /\ Total = 0 => outputSegments = <<>>
    /\ Total = 1 => Len(outputSegments) = 1

(***************************************************************************)
(* C6  as amended.  No input segment gives an empty output; exactly one    *)
(* input segment gives an output of exactly one element when its trimmed   *)
(* text is not ".", and an empty output when it is.                        *)
(***************************************************************************)
C6_EdgeCasesFiltered ==
  pc = "done" =>
    /\ Total = 0 => outputSegments = <<>>
    /\ Total = 1 =>
         IF IsDotOnly(RawAt(1).text) THEN outputSegments = <<>>
         ELSE /\ Len(outputSegments) = 1
              /\ Out(1).original_ids = <<RawAt(1).id>>

(* A finished pass over a single segment that is in the output. *)
C6_Witness ==
  /\ pc = "done"
  /\ Total = 1
  /\ Len(outputSegments) = 1

(***************************************************************************)
(* C7  Idempotent filtering.  When no input segment is dot-only, a second  *)
(* merge pass over the same combinedSegments list writes the same output   *)
(* (speakers, texts, original_ids, starts and ends) as the first.          *)
(***************************************************************************)
C7_RerunSameOutput ==
  (Len(dumped) >= 2 /\ \A seg \in AllRaw : ~IsDotOnly(seg.text)) =>
    dumped[2] = dumped[1]

(***************************************************************************)
(* C8  Sealing.  In every step, the output sequence keeps its elements and *)
(* does not get shorter, and every output segment that is not the last one *)
(* after the step (all but the last before it, and the last as well when a *)
(* segment of another speaker is appended) keeps its speaker, text,        *)
(* original_ids, start and end.                                            *)
(***************************************************************************)
C8_Sealing ==
  [][/\ Len(outputSegments') >= Len(outputSegments)
     /\ \A k \in DOMAIN outputSegments :
          /\ outputSegments'[k] = outputSegments[k]
          /\ k < Len(outputSegments') =>
               heap'[outputSegments[k]] = heap[outputSegments[k]]]_vars

(* The second output segment has absorbed a segment after the first one    *)
(* was sealed.                                                             *)
C8_Witness ==
  /\ Merging
  /\ Len(outputSegments) = 2
  /\ Len(Out(2).original_ids) = 2

(***************************************************************************)
(* C9  Tie-breaking.  The list the merge loop walks is in ascending start  *)
(* order, and segments of equal start are in concatenation order: the      *)
(* interviewer's in stream order, then the participant's in stream order.  *)
(***************************************************************************)
C9_StableOrder ==
  Sorted =>
    /\ \A a \in 1..Total :
         /\ heap[a].speaker = SpeakerAt(a)
         /\ heap[a].original_ids[1] = RawAt(a).id
    /\ \A k \in DOMAIN combinedSegments : \A l \in DOMAIN combinedSegments :
         k < l =>
           \/ RawAt(combinedSegments[k]).start < RawAt(combinedSegments[l]).start
           \/ /\ RawAt(combinedSegments[k]).start = RawAt(combinedSegments[l]).start
              /\ combinedSegments[k] < combinedSegments[l]

(* The sort has moved a segment, and an interviewer segment stands before  *)
(* a participant segment of the same start.                                *)
C9_Witness ==
  /\ Sorted
  /\ \E k \in DOMAIN combinedSegments : combinedSegments[k] # k
  /\ \E k \in DOMAIN combinedSegments : \E l \in DOMAIN combinedSegments :
       /\ k < l
       /\ RawAt(combinedSegments[k]).start = RawAt(combinedSegments[l]).start
       /\ SpeakerAt(combinedSegments[k]) = interviewerName
       /\ SpeakerAt(combinedSegments[l]) = participantName

(***************************************************************************)
(* C10  When every input segment has end >= start >= 0, every output       *)
(* segment has end >= start >= 0 at every step of the merge pass.          *)
(***************************************************************************)
C10_OutputTimesOrdered ==
  (\A seg \in AllRaw : IsValidRaw(seg)) =>
    \A k \in DOMAIN outputSegments :
      Out(k).end >= Out(k).start /\ Out(k).start >= 0

(* A valid input one of whose output segments ends earlier than the first  *)
(* segment it absorbed: the end is the last absorbed one, not the maximum. *)
C10_Witness ==
  /\ \A seg \in AllRaw : IsValidRaw(seg)
  /\ \E k \in DOMAIN outputSegments :
       /\ Len(Out(k).original_ids) >= 2
       /\ Out(k).end < RawAt(outputSegments[k]).end

====
